---- MODULE Spec2Model ----
(***************************************************************************)
(* A model of apply_agentkit.py: the manifest-driven copy-plan builder,    *)
(* the placeholder renderer, the .gitignore merge and the plan executor.   *)
(*                                                                         *)
(* Text is a sequence of one-character strings.  A path is a sequence of   *)
(* component names.  The destination tree is a function from paths to      *)
(* nodes.                                                                  *)
(***************************************************************************)
EXTENDS Integers, Sequences, FiniteSets, TLC

VARIABLES
    pc,               \* position of the running call / of main()
    snippet,          \* merge_gitignore: text of the snippet source
    gitignore,        \* merge_gitignore: the destination file [exists, text]
    before,           \* history: the destination file before the last merge
    merges,           \* history: number of merges done
    content,          \* render_text: input text
    variables,        \* render_text / apply_plan: the variable mapping
    rendered,         \* render_text: returned text
    force,            \* the overwrite flag (--force)
    manifest,         \* the loaded manifest
    agents_selected,  \* the agent selection
    plan,             \* what build_copy_plan returned or raised
    items,            \* apply_plan: the plan being executed
    idx,              \* apply_plan: index of the next item of the loop
    fs,               \* the destination tree: path -> node
    error,            \* the exception that ended the run, "" when none
    run,              \* number of the current run of the tool
    fs_before,        \* history: the tree before the last item ran
    trace,            \* history: the items run in this run, [idx, outcome]
    fs_start,         \* history: the tree when this run started
    render_exts,      \* apply_plan: the renderable extensions
    manifest_file,    \* main: the manifest file and the YAML parser
    agents_arg,       \* main: the text of --agents
    var_args          \* main: the --var tokens

vars == <<pc, snippet, gitignore, before, merges, content, variables, rendered,
          force, manifest, agents_selected, plan, items, idx, fs, error, run,
          fs_before, trace, fs_start, render_exts, manifest_file, agents_arg,
          var_args>>

mergeVars == <<snippet, gitignore, before, merges>>
renderVars == <<content, rendered>>
planVars == <<manifest, agents_selected, plan>>
inputVars == <<manifest_file, agents_arg, var_args>>
applyVars == <<items, idx, fs, error, run, fs_before, trace, fs_start,
               render_exts>>

(***************************************************************************)
(* Bounds of the model.                                                    *)
(***************************************************************************)
MaxText == 3        \* longest snippet / existing .gitignore text, in characters
MaxMerges == 2      \* merges of the same snippet in one behaviour
MaxPieces == 4      \* pieces a render_text input is put together from
MaxSelected == 2    \* longest explicit agent selection
MaxItems == 3       \* longest plan handed to apply_plan

(***************************************************************************)
(* Text helpers.                                                           *)
(***************************************************************************)
NL == "\n"
SP == " "

Range(s) == { s[i] : i \in DOMAIN s }

Texts(alphabet, n) == UNION { [1..k -> alphabet] : k \in 0..n }

\* str.isspace() on one character, for the characters the model uses.
IsSpace(c) == c \in {SP, NL, "\t"}

\* bool(line.strip()): the line holds a character that is not whitespace.
StripNonEmpty(line) == \E i \in DOMAIN line : ~IsSpace(line[i])

\* str.splitlines(): lines end at a line break, the break is dropped, and a
\* text that ends with a break has no empty last line.
RECURSIVE SplitFrom(_, _, _)
SplitFrom(s, i, cur) ==
    IF i > Len(s) THEN (IF cur = <<>> THEN <<>> ELSE <<cur>>)
    ELSE IF s[i] = NL THEN <<cur>> \o SplitFrom(s, i + 1, <<>>)
    ELSE SplitFrom(s, i + 1, Append(cur, s[i]))

splitlines(s) == SplitFrom(s, 1, <<>>)

\* "\n".join(lines)
RECURSIVE JoinNL(_)
JoinNL(lines) ==
    IF lines = <<>> THEN <<>>
    ELSE IF Len(lines) = 1 THEN lines[1]
    ELSE lines[1] \o <<NL>> \o JoinNL(Tail(lines))

(***************************************************************************)
(* merge_gitignore                                                         *)
(***************************************************************************)
\* A mutant: the filter forgets the lines the destination already has.
to_add_NoExistingCheck(snippet_lines, existing) ==
    SelectSeq(snippet_lines, LAMBDA line : StripNonEmpty(line))

\* to_add = [line for line in snippet if line.strip() and line not in existing_set]
to_add(snippet_lines, existing) ==
    SelectSeq(snippet_lines,
              LAMBDA line : StripNonEmpty(line) /\ line \notin Range(existing))

\* The lines read from the destination: [] when it does not exist.
existing_lines(dst) == IF dst.exists THEN splitlines(dst.text) ELSE <<>>

\* What the "a"-mode open writes: nothing when to_add is empty, otherwise an
\* optional "\n" and the joined lines with a trailing "\n".
merge_written(snippet_text, dst) ==
    LET existing == existing_lines(dst)
        add == to_add(splitlines(snippet_text), existing)
    IN  IF add = <<>> THEN <<>>
        ELSE (IF existing # <<>> /\ existing[Len(existing)] # <<>>
                 THEN <<NL>> ELSE <<>>)
             \o JoinNL(add) \o <<NL>>

\* The destination file after merge_gitignore (force is not read by the code).
merge_gitignore(snippet_text, dst, overwrite) ==
    LET w == merge_written(snippet_text, dst)
    IN  IF w = <<>> THEN dst
        ELSE [exists |-> TRUE, text |-> (IF dst.exists THEN dst.text ELSE <<>>) \o w]

(***************************************************************************)
(* Specification SpecMerge: merge_gitignore applied repeatedly to one      *)
(* destination with one snippet.                                           *)
(***************************************************************************)
MergeAlphabet == {"a", "b", SP, NL}
NoManifest == [type |-> "none"]
NoPlan == [ok |-> FALSE, error |-> "not called", names |-> <<>>, available |-> <<>>,
           items |-> <<>>]
Absent == [exists |-> FALSE, text |-> <<>>]

\* The command line in a specification that does not run main().
MainIdle ==
    /\ manifest_file = <<>>
    /\ agents_arg = <<>>
    /\ var_args = <<>>

\* The executor's variables in a specification that does not run it.
ApplyIdle ==
    /\ MainIdle
    /\ items = <<>>
    /\ idx = 0
    /\ fs = <<>>
    /\ error = ""
    /\ run = 0
    /\ fs_before = <<>>
    /\ trace = <<>>
    /\ fs_start = <<>>
    /\ render_exts = <<>>

InitMerge ==
    /\ pc = "merge"
    /\ snippet \in Texts(MergeAlphabet, MaxText)
    /\ gitignore \in {Absent} \cup
           { [exists |-> TRUE, text |-> t] : t \in Texts(MergeAlphabet, MaxText) }
    /\ before = gitignore
    /\ merges = 0
    /\ force \in BOOLEAN
    /\ content = <<>>
    /\ variables = <<>>
    /\ rendered = <<>>
    /\ manifest = NoManifest
    /\ agents_selected = <<>>
    /\ plan = NoPlan
    /\ ApplyIdle

MergeStep ==
    /\ pc = "merge"
    /\ merges < MaxMerges
    /\ gitignore' = merge_gitignore(snippet, gitignore, force)
    /\ before' = gitignore
    /\ merges' = merges + 1
    /\ UNCHANGED <<pc, snippet, variables, force>>
    /\ UNCHANGED <<renderVars, planVars, applyVars>>
    /\ UNCHANGED inputVars

NextMerge == MergeStep

SpecMerge == InitMerge /\ [][NextMerge]_vars

(***************************************************************************)
(* render_text and PLACEHOLDER = \{\{\s*([A-Z0-9_]+)\s*\}\}                *)
(***************************************************************************)
\* The class [A-Z0-9_].
NameChars ==
    {"A", "B", "C", "D", "E", "F", "G", "H", "I", "J", "K", "L", "M", "N", "O",
     "P", "Q", "R", "S", "T", "U", "V", "W", "X", "Y", "Z", "0", "1", "2", "3",
     "4", "5", "6", "7", "8", "9", "_"}

\* The first index >= i of s that is not whitespace (\s*, greedy).
RECURSIVE SkipSpace(_, _)
SkipSpace(s, i) ==
    IF i <= Len(s) /\ IsSpace(s[i]) THEN SkipSpace(s, i + 1) ELSE i

\* The first index >= i of s that is not in [A-Z0-9_] ([A-Z0-9_]+, greedy).
RECURSIVE SkipName(_, _)
SkipName(s, i) ==
    IF i <= Len(s) /\ s[i] \in NameChars THEN SkipName(s, i + 1) ELSE i

\* A match of PLACEHOLDER that starts at index i of s: [from, to, key] with
\* to the index of its last character, or to = 0 when there is none.  The
\* three classes and the braces are disjoint, so the greedy match is the
\* only candidate.
PLACEHOLDER(s, i) ==
    LET a == SkipSpace(s, i + 2)
        b == SkipName(s, a)
        c == SkipSpace(s, b)
    IN  IF /\ i + 1 <= Len(s) /\ s[i] = "{" /\ s[i + 1] = "{"
           /\ b > a
           /\ c + 1 <= Len(s) /\ s[c] = "}" /\ s[c + 1] = "}"
        THEN [from |-> i, to |-> c + 1, key |-> SubSeq(s, a, b - 1)]
        ELSE [from |-> i, to |-> 0, key |-> <<>>]

\* A mutant: a placeholder whose key is unknown renders as the empty text.
repl_UnknownToEmpty(s, m, mapping) ==
    IF m.key \in DOMAIN mapping THEN mapping[m.key] ELSE <<>>

\* repl(m): variables.get(key, m.group(0))
repl(s, m, mapping) ==
    IF m.key \in DOMAIN mapping THEN mapping[m.key] ELSE SubSeq(s, m.from, m.to)

\* PLACEHOLDER.sub(repl, content): one scan from the left; the text a
\* replacement returns is never scanned.
RECURSIVE SubFrom(_, _, _)
SubFrom(s, i, mapping) ==
    IF i > Len(s) THEN <<>>
    ELSE LET m == PLACEHOLDER(s, i)
         IN  IF m.to # 0
             THEN repl(s, m, mapping) \o SubFrom(s, m.to + 1, mapping)
             ELSE <<s[i]>> \o SubFrom(s, i + 1, mapping)

render_text(text, mapping) == SubFrom(text, 1, mapping)

(***************************************************************************)
(* Specification SpecRender: render_text on texts put together from        *)
(* pieces, under a few variable mappings.                                  *)
(***************************************************************************)
Pieces ==
    { <<"{", "{", "X", "}", "}">>, <<"{", "{", SP, "Y", SP, "}", "}">>,
      <<"{", "{">>, <<"}", "}">>, <<"{">>, <<"X">>, <<SP>>, <<"a">> }

RECURSIVE Concat(_)
Concat(seqs) == IF seqs = <<>> THEN <<>> ELSE seqs[1] \o Concat(Tail(seqs))

RenderInputs == { Concat(ps) : ps \in Texts(Pieces, MaxPieces) }

VarMaps ==
    { <<>>,
      (<<"X">> :> <<"v">>) @@ (<<"a">> :> <<"z">>),
      (<<"X">> :> <<"{", "{", "Y", "}", "}">>) @@ (<<"Y">> :> <<"w">>),
      (<<"X">> :> <<"{", "{">>) @@ (<<"Y">> :> <<>>) }

InitRender ==
    /\ pc = "render"
    /\ content \in RenderInputs
    /\ variables \in VarMaps
    /\ rendered = <<>>
    /\ snippet = <<>>
    /\ gitignore = Absent
    /\ before = Absent
    /\ merges = 0
    /\ force = FALSE
    /\ manifest = NoManifest
    /\ agents_selected = <<>>
    /\ plan = NoPlan
    /\ ApplyIdle

RenderStep ==
    /\ pc = "render"
    /\ rendered' = render_text(content, variables)
    /\ pc' = "rendered"
    /\ UNCHANGED <<content, variables, force>>
    /\ UNCHANGED <<mergeVars, planVars, applyVars>>
    /\ UNCHANGED inputVars

NextRender == RenderStep

SpecRender == InitRender /\ [][NextRender]_vars

\* The placeholder occurrences of s, stated on the text itself: s[i..j] is
\* "{{", whitespace, a non-empty name, whitespace, "}}".
IsPlaceholderAt(s, i, j, a, b) ==
    /\ i + 2 <= a /\ a <= b /\ b <= j - 2
    /\ s[i] = "{" /\ s[i + 1] = "{" /\ s[j - 1] = "}" /\ s[j] = "}"
    /\ \A k \in (i + 2)..(a - 1) : IsSpace(s[k])
    /\ \A k \in a..b : s[k] \in NameChars
    /\ \A k \in (b + 1)..(j - 2) : IsSpace(s[k])

Occurrences(s) ==
    UNION { UNION { UNION {
        { [from |-> i, to |-> j, a |-> a, b |-> b] :
            b \in { e \in a..(j - 2) : IsPlaceholderAt(s, i, j, a, e) } } :
          a \in { k \in (i + 2)..(j - 2) :
                    s[k] \in NameChars /\ \A w \in (i + 2)..(k - 1) : IsSpace(s[w]) } } :
        j \in { k \in (i + 4)..Len(s) : s[k - 1] = "}" /\ s[k] = "}" } } :
      i \in { k \in 1..(Len(s) - 1) : s[k] = "{" /\ s[k + 1] = "{" } }

\* The text the claim describes: outside the occurrences the input, at an
\* occurrence the mapped value when its name is a key and the occurrence as
\* written when it is not.
RECURSIVE Expected(_, _, _, _)
Expected(s, i, occ, mapping) ==
    IF i > Len(s) THEN <<>>
    ELSE IF \E o \in occ : o.from = i
    THEN LET o == CHOOSE o \in occ : o.from = i
             name == SubSeq(s, o.a, o.b)
         IN  (IF name \in DOMAIN mapping THEN mapping[name]
              ELSE SubSeq(s, o.from, o.to))
             \o Expected(s, o.to + 1, occ, mapping)
    ELSE <<s[i]>> \o Expected(s, i + 1, occ, mapping)

\* C6: render_text replaces every placeholder whose name is a key by the
\* mapped value, leaves every other placeholder and all other text as
\* written, and never substitutes inside a substituted value.
C6_RenderSubstitutes ==
    pc = "rendered" =>
        LET occ == Occurrences(content)
        IN  /\ \A o \in occ, p \in occ :
                 o # p => (o.to < p.from \/ p.to < o.from)
            /\ rendered = Expected(content, 1, occ, variables)
            /\ (\A o \in occ : SubSeq(content, o.a, o.b) \notin DOMAIN variables)
                   => rendered = content

\* "{{X}}{{ Y }}" under X -> "{{Y}}", Y -> "w" renders to "{{Y}}w".
C6_Witness ==
    /\ pc = "rendered"
    /\ content = <<"{", "{", "X", "}", "}", "{", "{", SP, "Y", SP, "}", "}">>
    /\ <<"Y">> \in DOMAIN variables /\ variables[<<"Y">>] = <<"w">>
    /\ rendered = <<"{", "{", "Y", "}", "}", "w">>

\* C3: merge_gitignore only appends (the prior text and the prior lines are a
\* prefix of the result), a second merge of the same snippet writes nothing,
\* and a snippet whose non-blank lines are all present writes nothing; for
\* both values of force.
IsPrefix(s, t) == Len(s) <= Len(t) /\ SubSeq(t, 1, Len(s)) = s

C3_MergeAppendOnlyIdempotent ==
    merges >= 1 =>
        /\ before.exists => gitignore.exists
        /\ IsPrefix(before.text, gitignore.text)
        /\ IsPrefix(existing_lines(before), existing_lines(gitignore))
        /\ merges >= 2 => gitignore = before
        /\ (\A line \in Range(splitlines(snippet)) :
                StripNonEmpty(line) => line \in Range(existing_lines(before)))
               => gitignore = before

\* "a" merged with the snippet "b": the second merge leaves "a\nb\n" alone.
C3_Witness ==
    /\ merges = 2
    /\ snippet = <<"b">>
    /\ gitignore = [exists |-> TRUE, text |-> <<"a", NL, "b", NL>>]
    /\ before = gitignore

\* C8: when merge_gitignore appends to an existing file whose last line is
\* not empty, the result is the old lines, one blank line, then the missing
\* lines, and ends with a newline -- with or without a final newline in the
\* old file.
C8_BlankLineBeforeAppended ==
    ( /\ merges = 1
      /\ before.exists
      /\ gitignore # before
      /\ existing_lines(before) # <<>>
      /\ existing_lines(before)[Len(existing_lines(before))] # <<>> )
    => /\ gitignore.text[Len(gitignore.text)] = NL
       /\ existing_lines(gitignore)
            = existing_lines(before) \o << <<>> >>
              \o to_add(splitlines(snippet), existing_lines(before))

(***************************************************************************)
(* build_copy_plan and parse_copy_item.                                    *)
(*                                                                         *)
(* A manifest value is a record with a "type" ("list", "mapping",          *)
(* "scalar"); a dict whose keys may be missing is a record whose fields    *)
(* may be missing.  An agent name is a sequence of characters.             *)
(***************************************************************************)
YList(elems) == [type |-> "list", elems |-> elems]
YMap(keys, val) == [type |-> "mapping", keys |-> keys, val |-> val]
YScalar == [type |-> "scalar"]

\* dict.get(key, default)
Get(obj, key, default) == IF key \in DOMAIN obj THEN obj[key] ELSE default

\* ord() of the characters agent names are written with.
CodePoint ==
    ("." :> 46) @@ ("A" :> 65) @@ ("B" :> 66) @@ ("D" :> 68) @@ ("M" :> 77)
    @@ ("a" :> 97) @@ ("b" :> 98) @@ ("c" :> 99) @@ ("d" :> 100) @@ ("e" :> 101)
    @@ ("g" :> 103) @@ ("h" :> 104) @@ ("i" :> 105) @@ ("l" :> 108)
    @@ ("m" :> 109) @@ ("n" :> 110) @@ ("o" :> 111) @@ ("p" :> 112)
    @@ ("r" :> 114) @@ ("s" :> 115) @@ ("t" :> 116) @@ ("u" :> 117)
    @@ ("v" :> 118) @@ ("y" :> 121) @@ ("z" :> 122)

\* s < t on str: the first differing character decides, a proper prefix is less.
RECURSIVE LexLess(_, _)
LexLess(s, t) ==
    IF s = <<>> THEN t # <<>>
    ELSE IF t = <<>> THEN FALSE
    ELSE IF s[1] # t[1] THEN CodePoint[s[1]] < CodePoint[t[1]]
    ELSE LexLess(Tail(s), Tail(t))

RECURSIVE InsertSorted(_, _)
InsertSorted(x, s) ==
    IF s = <<>> THEN <<x>>
    ELSE IF LexLess(x, s[1]) THEN <<x>> \o s
    ELSE <<s[1]>> \o InsertSorted(x, Tail(s))

\* sorted(list) of strings
RECURSIVE sorted(_)
sorted(s) == IF s = <<>> THEN <<>> ELSE InsertSorted(s[1], sorted(Tail(s)))

ALL == <<"a", "l", "l">>

\* raise ValueError(...): the message, the names it lists and the available list.
Raise(msg, names, available) ==
    [ok |-> FALSE, error |-> msg, names |-> names, available |-> available,
     items |-> <<>>]

\* parse_copy_item: [ok, item] or [ok, error].
parse_copy_item(kit_root, dest_root, obj) ==
    IF obj.type # "mapping"
    THEN [ok |-> FALSE, error |-> "copy item must be mapping"]
    ELSE IF "src" \notin DOMAIN obj \/ "dst" \notin DOMAIN obj
    THEN [ok |-> FALSE, error |-> "copy item requires src/dst strings"]
    ELSE [ok |-> TRUE,
          item |-> [src |-> kit_root \o obj.src,
                    dst |-> dest_root \o obj.dst,
                    mode |-> Get(obj, "mode", "copy"),
                    optional |-> Get(obj, "optional", FALSE)]]

\* for it in copy_list: items.append(parse_copy_item(...)); the first entry
\* that does not parse raises.
RECURSIVE AppendParsed(_, _, _, _)
AppendParsed(kit_root, dest_root, elems, acc) ==
    IF elems = <<>> THEN [ok |-> TRUE, items |-> acc]
    ELSE LET p == parse_copy_item(kit_root, dest_root, elems[1])
         IN  IF ~p.ok THEN [ok |-> FALSE, error |-> p.error]
             ELSE AppendParsed(kit_root, dest_root, Tail(elems), Append(acc, p.item))

\* A mutant: an explicit selection is put in sorted order.
chosen_agents_Sorted(selected, available_agents) ==
    IF selected = <<ALL>> THEN available_agents ELSE sorted(selected)

\* chosen = available_agents if agents_selected == ["all"] else agents_selected
chosen_agents(selected, available_agents) ==
    IF selected = <<ALL>> THEN available_agents ELSE selected

\* A mutant: only the first unknown name is reported.
unknown_agents_FirstOnly(selected, keys) ==
    IF selected = <<ALL>> THEN <<>>
    ELSE LET u == SelectSeq(selected, LAMBDA a : a \notin Range(keys))
         IN  IF u = <<>> THEN <<>> ELSE <<u[1]>>

\* unknown = [a for a in chosen if a not in agents_map]; not computed for "all".
unknown_agents(selected, keys) ==
    IF selected = <<ALL>> THEN <<>>
    ELSE SelectSeq(selected, LAMBDA a : a \notin Range(keys))

\* for agent in chosen: the agent's copy list is checked and parsed.
RECURSIVE AppendAgents(_, _, _, _, _, _)
AppendAgents(kit_root, dest_root, agents_map, chosen, acc, available) ==
    IF chosen = <<>>
    THEN [ok |-> TRUE, error |-> "", names |-> <<>>, available |-> available,
          items |-> acc]
    ELSE LET copy_list == Get(agents_map.val[chosen[1]], "copy", YList(<<>>))
         IN  IF copy_list.type # "list"
             THEN Raise("agents.<agent>.copy must be a list", <<chosen[1]>>, <<>>)
             ELSE LET r == AppendParsed(kit_root, dest_root, copy_list.elems, acc)
                  IN  IF ~r.ok THEN Raise(r.error, <<>>, <<>>)
                      ELSE AppendAgents(kit_root, dest_root, agents_map,
                                        Tail(chosen), r.items, available)

build_copy_plan(kit_root, dest_root, m, selected) ==
    LET exts == Get(m, "render_extensions", YList(<<>>))
        agents_map == Get(m, "agents", YMap(<<>>, <<>>))
    IN  IF exts.type # "list"
        THEN Raise("render_extensions must be a list", <<>>, <<>>)
        ELSE IF agents_map.type # "mapping"
        THEN Raise("agents must be a mapping", <<>>, <<>>)
        ELSE
        LET available_agents == sorted(agents_map.keys)
            chosen == chosen_agents(selected, available_agents)
            unknown == unknown_agents(selected, agents_map.keys)
            common_copy == Get(Get(m, "common", <<>>), "copy", YList(<<>>))
        IN  IF unknown # <<>>
            THEN Raise("Unknown agents", unknown, available_agents)
            ELSE IF common_copy.type # "list"
            THEN Raise("common.copy must be a list", <<>>, <<>>)
            ELSE LET c == AppendParsed(kit_root, dest_root, common_copy.elems, <<>>)
                 IN  IF ~c.ok THEN Raise(c.error, <<>>, <<>>)
                     ELSE AppendAgents(kit_root, dest_root, agents_map, chosen,
                                       c.items, available_agents)

(***************************************************************************)
(* Specification SpecPlan: build_copy_plan on bounded manifests and        *)
(* selections.                                                             *)
(***************************************************************************)
KitRoot == <<"kit">>
DestRoot == <<"dest">>

AgentNames == { <<"B">>, <<"a">>, <<"a", "b">> }
UnknownNames == { <<"y">>, <<"z">> }

\* The declared key orders of the agents mapping: no key twice.
DeclaredOrders ==
    { s \in Texts(AgentNames, Cardinality(AgentNames)) :
        \A i \in DOMAIN s, j \in DOMAIN s : i # j => s[i] # s[j] }

Entry(path) == [type |-> "mapping", src |-> path, dst |-> path]
CommonEntry1 == Entry(<<"AGENT.md">>)
CommonEntry2 == [type |-> "mapping", src |-> <<"gitignore.snippet">>,
                 dst |-> <<".gitignore">>, mode |-> "merge_gitignore",
                 optional |-> TRUE]
CommonLists == { <<>>, <<CommonEntry1>>, <<CommonEntry1, CommonEntry2>>,
                 <<CommonEntry2, CommonEntry1>> }

AgentEntries(name) ==
    << Entry(name \o <<"rules.md">>),
       [type |-> "mapping", src |-> name \o <<"opt">>, dst |-> name \o <<"opt">>,
        mode |-> "copy", optional |-> TRUE] >>

Defects ==
    { [kind |-> k, agent |-> <<>>] :
        k \in {"none", "render_extensions", "agents", "common.copy",
               "common item scalar", "common item no dst", "no common",
               "no render_extensions"} }
    \cup { [kind |-> k, agent |-> n] :
             k \in {"agent.copy", "agent item", "agent no copy"}, n \in AgentNames }

AgentBlock(name, defect, entries) ==
    IF defect.agent # name THEN [copy |-> YList(entries)]
    ELSE IF defect.kind = "agent.copy" THEN [copy |-> YScalar]
    ELSE IF defect.kind = "agent item"
    THEN [copy |-> YList(<<entries[1], [type |-> "mapping", src |-> name]>>)]
    ELSE [other |-> YScalar]

MakeManifest(common_elems, declared, defect, entries_of) ==
    LET agents == IF defect.kind = "agents" THEN YScalar
                  ELSE YMap(declared,
                            [n \in Range(declared) |->
                                AgentBlock(n, defect, entries_of[n])])
        exts == IF defect.kind = "render_extensions" THEN YScalar
                ELSE YList(<< <<".", "m", "d">> >>)
        common ==
            IF defect.kind = "common.copy" THEN [copy |-> YScalar]
            ELSE IF defect.kind = "common item scalar"
            THEN [copy |-> YList(common_elems \o <<YScalar>>)]
            ELSE IF defect.kind = "common item no dst"
            THEN [copy |-> YList(<<[type |-> "mapping", src |-> <<"x">>]>>
                                 \o common_elems)]
            ELSE [copy |-> YList(common_elems)]
    IN  IF defect.kind = "no common"
        THEN [render_extensions |-> exts, agents |-> agents]
        ELSE IF defect.kind = "no render_extensions"
        THEN [agents |-> agents, common |-> common]
        ELSE [render_extensions |-> exts, agents |-> agents, common |-> common]

PlanManifests ==
    { MakeManifest(c, d, f, [n \in AgentNames |-> AgentEntries(n)]) :
        c \in CommonLists, d \in DeclaredOrders, f \in Defects }

Selections ==
    {<<ALL>>} \cup Texts(AgentNames \cup UnknownNames, MaxSelected)

InitPlan ==
    /\ pc = "plan"
    /\ manifest \in PlanManifests
    /\ agents_selected \in Selections
    /\ plan = NoPlan
    /\ ApplyIdle
    /\ snippet = <<>>
    /\ gitignore = Absent
    /\ before = Absent
    /\ merges = 0
    /\ force = FALSE
    /\ content = <<>>
    /\ variables = <<>>
    /\ rendered = <<>>

PlanStep ==
    /\ pc = "plan"
    /\ plan' = build_copy_plan(KitRoot, DestRoot, manifest, agents_selected)
    /\ pc' = "planned"
    /\ UNCHANGED <<manifest, agents_selected, variables, force>>
    /\ UNCHANGED <<mergeVars, renderVars, applyVars>>
    /\ UNCHANGED inputVars

NextPlan == PlanStep

SpecPlan == InitPlan /\ [][NextPlan]_vars

\* The plan the claim describes, stated on the manifest: each declared entry
\* with its paths under the two roots and the defaults for mode and optional.
Planned(entries) ==
    [i \in 1..Len(entries) |->
        [src |-> KitRoot \o entries[i].src,
         dst |-> DestRoot \o entries[i].dst,
         mode |-> IF "mode" \in DOMAIN entries[i] THEN entries[i].mode ELSE "copy",
         optional |-> IF "optional" \in DOMAIN entries[i]
                      THEN entries[i].optional ELSE FALSE]]

DeclaredCopy(block) ==
    IF "copy" \in DOMAIN block THEN block.copy.elems ELSE <<>>

\* The keys of the agents mapping in ascending order: the arrangement of the
\* keys with every name before every greater one.
AscendingKeys(keys) ==
    CHOOSE s \in [1..Len(keys) -> Range(keys)] :
        \A i \in 1..Len(keys), j \in 1..Len(keys) : i < j => LexLess(s[i], s[j])

\* C1: a plan that is returned is the common entries in declared order, then
\* the entries of each chosen agent in declared order; the agents in sorted
\* name order for ["all"] and in the caller's order otherwise.
C1_PlanOrder ==
    (pc = "planned" /\ plan.ok) =>
        LET order == IF agents_selected = <<ALL>>
                     THEN AscendingKeys(manifest.agents.keys)
                     ELSE agents_selected
            common == IF "common" \in DOMAIN manifest
                      THEN DeclaredCopy(manifest.common) ELSE <<>>
        IN  plan.items =
              Planned(common)
              \o Concat([i \in 1..Len(order) |->
                           Planned(DeclaredCopy(manifest.agents.val[order[i]]))])

\* The selection ["ab", "B"] against the declared keys: the plan is returned
\* with the items of "ab" before those of "B".
C1_Witness ==
    /\ pc = "planned" /\ plan.ok
    /\ agents_selected = << <<"a", "b">>, <<"B">> >>
    /\ Len(plan.items) = 6
    /\ plan.items[3].src = KitRoot \o <<"a", "b", "rules.md">>
    /\ plan.items[5].src = KitRoot \o <<"B", "rules.md">>

HasUnknown ==
    /\ agents_selected # <<ALL>>
    /\ "agents" \in DOMAIN manifest /\ manifest.agents.type = "mapping"
    /\ \E i \in DOMAIN agents_selected :
           agents_selected[i] \notin Range(manifest.agents.keys)

UnknownReported ==
    /\ ~plan.ok
    /\ plan.error = "Unknown agents"
    /\ plan.names = SelectSeq(agents_selected,
                              LAMBDA a : a \notin Range(manifest.agents.keys))
    /\ Range(plan.available) = Range(manifest.agents.keys)
    /\ Len(plan.available) = Len(manifest.agents.keys)
    /\ \A i \in DOMAIN plan.available, j \in DOMAIN plan.available :
           i < j => LexLess(plan.available[i], plan.available[j])

\* C2 as stated: an explicit selection with a name that is no key of the
\* agents mapping always fails with the error that lists exactly the unknown
\* selected names and the sorted available names.
C2_UnknownAlwaysListed ==
    (pc = "planned" /\ HasUnknown) => UnknownReported

\* C2 as amended: the same, for a manifest whose render_extensions is a list
\* (or absent); otherwise the call fails earlier with the render_extensions
\* type error.
C2_UnknownListedAfterTypeChecks ==
    /\ (pc = "planned" /\ HasUnknown
          /\ Get(manifest, "render_extensions", YList(<<>>)).type = "list")
         => UnknownReported
    /\ (pc = "planned" /\ HasUnknown) => ~plan.ok

\* The selection ["a", "z"] against a mapping that declares "a" and not "z":
\* the error names "z" alone.
C2_Witness ==
    /\ pc = "planned"
    /\ agents_selected = << <<"a">>, <<"z">> >>
    /\ <<"a">> \in Range(manifest.agents.keys)
    /\ Len(manifest.agents.keys) = 3
    /\ plan.error = "Unknown agents"
    /\ plan.names = << <<"z">> >>

(***************************************************************************)
(* The file trees.  A node is absent, a directory or a file with its text, *)
(* its timestamp, its execute bit and whether its bytes decode as UTF-8.   *)
(* The timestamps of directories are not modelled.                         *)
(***************************************************************************)
AbsentNode == [kind |-> "absent", text |-> <<>>, stamp |-> "", x |-> FALSE,
               utf8 |-> TRUE]
DirNode == [kind |-> "dir", text |-> <<>>, stamp |-> "", x |-> FALSE, utf8 |-> TRUE]
FileNode(text, stamp, x, utf8) ==
    [kind |-> "file", text |-> text, stamp |-> stamp, x |-> x, utf8 |-> utf8]

Last(s) == s[Len(s)]
Parent(p) == SubSeq(p, 1, Len(p) - 1)

\* The kit: read by the tool, never written.
KitTree ==
    (<<"kit">> :> DirNode)
    @@ (<<"kit", "A.MD">> :> FileNode(<<"{", "{", "X", "}", "}">>, "A.MD", FALSE, TRUE))
    @@ (<<"kit", "snip">> :> FileNode(<<"a", NL, "b", NL>>, "snip", FALSE, TRUE))
    @@ (<<"kit", "scripts">> :> DirNode)
    @@ (<<"kit", "scripts", "run.sh">> :> FileNode(<<"{", "{", "X", "}", "}">>, "run.sh", TRUE, TRUE))
    @@ (<<"kit", "scripts", "env.md">> :> FileNode(<<"{", "{", "X", "}", "}">>, "env.md", FALSE, TRUE))
    @@ (<<"kit", "scripts", "lib">> :> DirNode)
    @@ (<<"kit", "scripts", "lib", "blob.md">> :> FileNode(<<"{", "{", "X", "}", "}">>, "blob.md", FALSE, FALSE))

SrcNode(p) == IF p \in DOMAIN KitTree THEN KitTree[p] ELSE AbsentNode

DestPaths ==
    { <<"dest">>, <<"dest", ".gitignore">>, <<"dest", "scripts">>,
      <<"dest", "scripts", "run.sh">>, <<"dest", "scripts", "env.md">>,
      <<"dest", "scripts", "lib">>, <<"dest", "scripts", "lib", "blob.md">> }

\* The characters of the names that are sorted or whose suffix is read.
Spell ==
    ("A.MD" :> <<"A", ".", "M", "D">>)
    @@ ("snip" :> <<"s", "n", "i", "p">>) @@ ("none" :> <<"n", "o", "n", "e">>)
    @@ ("scripts" :> <<"s", "c", "r", "i", "p", "t", "s">>)
    @@ ("run.sh" :> <<"r", "u", "n", ".", "s", "h">>)
    @@ ("env.md" :> <<"e", "n", "v", ".", "m", "d">>)
    @@ ("lib" :> <<"l", "i", "b">>)
    @@ ("blob.md" :> <<"b", "l", "o", "b", ".", "m", "d">>)
    @@ ("dest" :> <<"d", "e", "s", "t">>)

\* str.lower() on the characters extensions are written with.
LowerChar(c) ==
    CASE c = "A" -> "a" [] c = "B" -> "b" [] c = "D" -> "d" [] c = "L" -> "l"
      [] c = "M" -> "m" [] OTHER -> c
lower(s) == [i \in DOMAIN s |-> LowerChar(s[i])]

\* Path.suffix: the final component from its last dot, "" when it has none
\* or only a leading one.
suffix(name) ==
    LET dots == { i \in 2..Len(name) : name[i] = "." }
    IN  IF dots = {} THEN <<>>
        ELSE SubSeq(name, CHOOSE i \in dots : \A j \in dots : j <= i, Len(name))

\* is_renderable(path, render_exts)
is_renderable(path, exts) ==
    lower(suffix(Spell[Last(path)])) \in { lower(exts[i]) : i \in DOMAIN exts }

\* list.sort() of the names of a set of paths of one directory.
RECURSIVE SortPaths(_)
SortPaths(S) ==
    IF S = {} THEN <<>>
    ELSE LET m == CHOOSE p \in S :
                    \A q \in S \ {p} : LexLess(Spell[Last(p)], Spell[Last(q)])
         IN  <<m>> \o SortPaths(S \ {m})

KitChildren(dir, kind) ==
    { p \in DOMAIN KitTree : Len(p) > 1 /\ Parent(p) = dir /\ KitTree[p].kind = kind }

\* The directories os.walk(src_dir) yields, top-down, with dirs sorted in place.
RECURSIVE WalkFrom(_)
RECURSIVE WalkAll(_)
WalkAll(dirs) ==
    IF dirs = <<>> THEN <<>> ELSE WalkFrom(dirs[1]) \o WalkAll(Tail(dirs))
WalkFrom(dir) == <<dir>> \o WalkAll(SortPaths(KitChildren(dir, "dir")))

Ok(tree) == [ok |-> TRUE, fs |-> tree, error |-> ""]
Fail(tree, e) == [ok |-> FALSE, fs |-> tree, error |-> e]

\* Path.mkdir(parents=True, exist_ok=True): every missing directory of the
\* chain is made; a file in the chain raises.  The directories above the
\* destination root exist.
mkdir_parents(tree, dir) ==
    LET chain == { SubSeq(dir, 1, k) : k \in 1..Len(dir) } \cap DOMAIN tree
    IN  IF \E q \in chain : tree[q].kind = "file"
        THEN Fail(tree, "FileExistsError")
        ELSE Ok([p \in DOMAIN tree |->
                   IF p \in chain /\ tree[p].kind = "absent" THEN DirNode
                   ELSE tree[p]])

\* ensure_parent(p)
ensure_parent(tree, p) == mkdir_parents(tree, Parent(p))

\* A mutant: an existing destination is overwritten whatever the flag says.
skip_existing_Never(tree, dst, overwrite) == FALSE

\* if dst.exists() and not force: skip
skip_existing(tree, dst, overwrite) == tree[dst].kind # "absent" /\ ~overwrite

\* copy_file
copy_file(tree, src, dst, overwrite, render, mapping) ==
    LET mk == ensure_parent(tree, dst)
        s == SrcNode(src)
        into == IF mk.fs[dst].kind = "dir" THEN dst \o <<Last(src)>> ELSE dst
    IN  IF ~mk.ok THEN mk
        ELSE IF skip_existing(mk.fs, dst, overwrite) THEN Ok(mk.fs)
        ELSE IF render /\ s.utf8
        THEN \* dst.write_text(render_text(txt)); shutil.copystat(src, dst)
             IF mk.fs[dst].kind = "dir" THEN Fail(mk.fs, "IsADirectoryError")
             ELSE Ok([mk.fs EXCEPT ![dst] =
                        FileNode(render_text(s.text, mapping), s.stamp, s.x, TRUE)])
        ELSE \* shutil.copy2(src, dst): into dst, or into dst/<name> for a directory
             IF mk.fs[into].kind = "dir"
             THEN Fail(mk.fs, "IsADirectoryError")
             ELSE Ok([mk.fs EXCEPT ![into] = FileNode(s.text, s.stamp, s.x, s.utf8)])

\* for fn in files: copy_file(root_p / fn, target_root / fn, ...)
RECURSIVE CopyFiles(_, _, _, _, _, _)
CopyFiles(tree, files, target_root, overwrite, exts, mapping) ==
    IF files = <<>> THEN Ok(tree)
    ELSE LET r == copy_file(tree, files[1], target_root \o <<Last(files[1])>>,
                            overwrite, is_renderable(files[1], exts), mapping)
         IN  IF ~r.ok THEN r
             ELSE CopyFiles(r.fs, Tail(files), target_root, overwrite, exts, mapping)

\* for root, dirs, files in os.walk(src_dir): mkdir the target, copy the files
RECURSIVE CopyDirs(_, _, _, _, _, _, _)
CopyDirs(tree, roots, src_dir, dst_dir, overwrite, exts, mapping) ==
    IF roots = <<>> THEN Ok(tree)
    ELSE LET rel_root == SubSeq(roots[1], Len(src_dir) + 1, Len(roots[1]))
             target_root == dst_dir \o rel_root
             mk == mkdir_parents(tree, target_root)
             r == CopyFiles(mk.fs, SortPaths(KitChildren(roots[1], "file")),
                            target_root, overwrite, exts, mapping)
         IN  IF ~mk.ok THEN mk
             ELSE IF ~r.ok THEN r
             ELSE CopyDirs(r.fs, Tail(roots), src_dir, dst_dir, overwrite, exts,
                           mapping)

\* copy_tree
copy_tree(tree, src_dir, dst_dir, overwrite, exts, mapping) ==
    IF SrcNode(src_dir).kind = "absent" THEN Fail(tree, "source dir not found")
    ELSE CopyDirs(tree, WalkFrom(src_dir), src_dir, dst_dir, overwrite, exts, mapping)

\* merge_gitignore on the tree: ensure_parent, the two reads, the append.
merge_gitignore_at(tree, src, dst, overwrite) ==
    LET mk == ensure_parent(tree, dst)
        s == SrcNode(src)
        d == mk.fs[dst]
        old == [exists |-> d.kind = "file", text |-> d.text]
        new == merge_gitignore(s.text, old, overwrite)
    IN  IF ~mk.ok THEN mk
        ELSE IF s.kind = "dir" \/ d.kind = "dir" THEN Fail(mk.fs, "IsADirectoryError")
        ELSE IF ~s.utf8 \/ ~d.utf8 THEN Fail(mk.fs, "UnicodeDecodeError")
        ELSE IF new = old THEN Ok(mk.fs)
        ELSE Ok([mk.fs EXCEPT ![dst] = FileNode(new.text, "now", d.x, TRUE)])

\* Mutants: a missing source always raises; a missing source never raises.
on_missing_AlwaysRaise(item) == "raised"
on_missing_NeverRaise(item) == "optional-missing"

\* if not item.src.exists(): if item.optional: continue; raise FileNotFoundError
on_missing(item) == IF item.optional THEN "optional-missing" ELSE "raised"

Outcome(r) == [fs |-> r.fs, outcome |-> IF r.ok THEN "done" ELSE "raised",
               error |-> r.error]

\* One iteration of the loop of apply_plan: [fs, outcome, error].
apply_item(tree, item, overwrite, exts, mapping) ==
    LET s == SrcNode(item.src)
        missing(what) ==
            [fs |-> tree, outcome |-> on_missing(item),
             error |-> IF on_missing(item) = "raised" THEN what ELSE ""]
    IN  IF item.mode = "merge_gitignore"
        THEN IF s.kind = "absent" THEN missing("missing snippet")
             ELSE Outcome(merge_gitignore_at(tree, item.src, item.dst, overwrite))
        ELSE IF s.kind = "dir"
        THEN Outcome(copy_tree(tree, item.src, item.dst, overwrite, exts, mapping))
        ELSE IF s.kind = "absent" THEN missing("missing file")
        ELSE Outcome(copy_file(tree, item.src, item.dst, overwrite,
                               is_renderable(item.src, exts), mapping))

(***************************************************************************)
(* Specification SpecApply: apply_plan on bounded plans and destination    *)
(* trees, and the tool run again over the tree it left.                    *)
(***************************************************************************)
CopyItem(src, dst, mode, optional) ==
    [src |-> src, dst |-> dst, mode |-> mode, optional |-> optional]

Catalogue ==
    { CopyItem(<<"kit", "A.MD">>, <<"dest", ".gitignore">>, "copy", FALSE),
      CopyItem(<<"kit", "snip">>, <<"dest", ".gitignore">>, "merge_gitignore", FALSE),
      CopyItem(<<"kit", "scripts">>, <<"dest", "scripts">>, "copy", FALSE) }
    \cup { CopyItem(<<"kit", "none">>, <<"dest", ".gitignore">>, m, o) :
             m \in {"copy", "merge_gitignore"}, o \in BOOLEAN }

OldFile == FileNode(<<"b", NL>>, "old", FALSE, TRUE)

\* The destination trees a run starts from: a node that exists has a
\* directory for parent.
StartTrees ==
    { [p \in DestPaths |-> AbsentNode] }
    \cup
    { [p \in DestPaths |->
         CASE p = <<"dest">> -> DirNode
           [] p = <<"dest", ".gitignore">> -> gi
           [] p = <<"dest", "scripts">> -> sc
           [] p = <<"dest", "scripts", "run.sh">> ->
                 IF sc.kind = "dir" THEN sh ELSE AbsentNode
           [] OTHER -> AbsentNode] :
        gi \in {AbsentNode, OldFile},
        sc \in {AbsentNode, DirNode, OldFile},
        sh \in {AbsentNode, OldFile} }

DefaultVariables == (<<"X">> :> <<"a">>)

InitApply ==
    /\ pc = "apply"
    /\ items \in Texts(Catalogue, MaxItems)
    /\ force \in BOOLEAN
    /\ fs \in StartTrees
    /\ render_exts = << <<".", "M", "D">> >>
    /\ variables = DefaultVariables
    /\ idx = 1
    /\ error = ""
    /\ run = 1
    /\ fs_before = fs
    /\ trace = <<>>
    /\ fs_start = fs
    /\ MainIdle
    /\ manifest = NoManifest
    /\ agents_selected = <<>>
    /\ plan = NoPlan
    /\ snippet = <<>>
    /\ gitignore = Absent
    /\ before = Absent
    /\ merges = 0
    /\ content = <<>>
    /\ rendered = <<>>

\* for item in items: one iteration; an exception ends the run.
ApplyStep ==
    /\ pc = "apply"
    /\ idx <= Len(items)
    /\ LET r == apply_item(fs, items[idx], force, render_exts, variables)
       IN  /\ fs' = r.fs
           /\ fs_before' = fs
           /\ trace' = Append(trace, [idx |-> idx, outcome |-> r.outcome])
           /\ IF r.outcome = "raised"
              THEN pc' = "error" /\ error' = r.error /\ idx' = idx
              ELSE pc' = pc /\ error' = error /\ idx' = idx + 1
    /\ UNCHANGED <<items, run, fs_start, render_exts, variables, force>>
    /\ UNCHANGED <<mergeVars, renderVars, planVars>>
    /\ UNCHANGED inputVars

\* The loop is over: apply_plan returns.
ApplyReturn ==
    /\ pc = "apply"
    /\ idx > Len(items)
    /\ pc' = "returned"
    /\ UNCHANGED <<variables, force>>
    /\ UNCHANGED <<mergeVars, renderVars, planVars, applyVars>>
    /\ UNCHANGED inputVars

\* The tool is run a second time with the same plan, flag and variables.
Rerun ==
    /\ pc \in {"returned", "error"}
    /\ run = 1
    /\ run' = run + 1
    /\ pc' = "apply"
    /\ idx' = 1
    /\ error' = ""
    /\ trace' = <<>>
    /\ fs_start' = fs
    /\ fs_before' = fs
    /\ UNCHANGED <<items, fs, render_exts, variables, force>>
    /\ UNCHANGED <<mergeVars, renderVars, planVars>>
    /\ UNCHANGED inputVars

NextApply == ApplyStep \/ ApplyReturn \/ Rerun

SpecApply == InitApply /\ [][NextApply]_vars

LastRun == trace[Len(trace)]
LastItem == items[LastRun.idx]
InApply == pc \in {"apply", "returned", "error"} /\ trace # <<>>

SameContent(t, u) ==
    \A p \in DestPaths : t[p].kind = u[p].kind /\ t[p].text = u[p].text

C5_MissingSource ==
    (InApply /\ SrcNode(LastItem.src).kind = "absent") =>
        /\ fs = fs_before
        /\ LastItem.optional =>
              /\ LastRun.outcome = "optional-missing"
              /\ error = ""
              /\ pc \in {"apply", "returned"}
              /\ idx = LastRun.idx + 1
        /\ ~LastItem.optional =>
              /\ LastRun.outcome = "raised"
              /\ pc = "error"
              /\ idx = LastRun.idx
              /\ error = (IF LastItem.mode = "merge_gitignore"
                          THEN "missing snippet" ELSE "missing file")

\* An optional item without source ran first, and the next item ran after it.
C5_Witness ==
    /\ InApply /\ Len(trace) = 2
    /\ trace[1].outcome = "optional-missing"
    /\ SrcNode(items[1].src).kind = "absent" /\ items[1].optional
    /\ trace[2].outcome = "done"
    /\ fs # fs_start

\* C7: a second run with the same plan, flag, sources and variables leaves
\* every destination file with the content the run before left; without
\* overwrite no step of the second run changes anything.
C7_RerunIdempotent ==
    /\ (run >= 2 /\ pc \in {"returned", "error"}) => SameContent(fs, fs_start)
    /\ (run >= 2 /\ ~force /\ InApply) => fs = fs_before

\* Overwrite on, the plan renders "a" into .gitignore and then merges the
\* snippet into it: the second run ends with "a\nb\n" again.
C7_Witness ==
    /\ run = 2 /\ pc = "returned" /\ force
    /\ \E i \in DOMAIN items, j \in DOMAIN items :
          /\ i < j
          /\ items[i].src = <<"kit", "A.MD">>
          /\ items[j].src = <<"kit", "snip">>
    /\ fs[<<"dest", ".gitignore">>].text = <<"a", NL, "b", NL>>
    /\ fs_start[<<"dest", ".gitignore">>].text = <<"a", NL, "b", NL>>

\* The tree after the first k items ran one after the other on tree t.
RECURSIVE AfterItems(_, _)
AfterItems(t, k) ==
    IF k = 0 THEN t
    ELSE apply_item(AfterItems(t, k - 1), items[k], force, render_exts, variables).fs

RaisesOnMissing(i) ==
    SrcNode(items[i].src).kind = "absent" /\ ~items[i].optional

\* C9: the items run in plan order, each once, and the run stops at the
\* first item that fails: when that is an item without source, the tree is
\* what the items before it left, nothing after it has run; a run without a
\* failing item has run every item.
C9_InOrderStopAtFirstFailure ==
    pc \in {"apply", "returned", "error"} =>
        /\ \A k \in DOMAIN trace : trace[k].idx = k
        /\ \A k \in DOMAIN trace : k < Len(trace) => trace[k].outcome # "raised"
        /\ pc # "apply" => fs = AfterItems(fs_start, Len(trace))
        /\ pc = "apply" => idx = Len(trace) + 1
        /\ pc = "returned" =>
              /\ Len(trace) = Len(items)
              /\ \A k \in DOMAIN trace : trace[k].outcome # "raised"
        /\ pc = "error" => (trace # <<>> /\ LastRun.outcome = "raised")
        /\ (pc = "error" /\ error \in {"missing snippet", "missing file"}) =>
              /\ RaisesOnMissing(Len(trace))
              /\ \A k \in 1..(Len(trace) - 1) : ~RaisesOnMissing(k)
              /\ fs = AfterItems(fs_start, Len(trace) - 1)
        /\ \A i \in DOMAIN items :
              RaisesOnMissing(i) => (Len(trace) <= i /\ pc # "returned")

\* Three items: the first changed the tree, the second has no source and is
\* not optional, the third never ran.
C9_Witness ==
    /\ pc = "error" /\ error = "missing file"
    /\ Len(items) = 3 /\ Len(trace) = 2
    /\ trace[1].outcome = "done"
    /\ fs # fs_start
    /\ SrcNode(items[3].src).kind # "absent"

(***************************************************************************)
(* main(): load_manifest, norm_agents_arg, build_copy_plan, the variable   *)
(* mapping, apply_plan, the execute bits of scripts/*.sh.                  *)
(***************************************************************************)
RECURSIVE LStrip(_)
LStrip(s) == IF s # <<>> /\ IsSpace(s[1]) THEN LStrip(Tail(s)) ELSE s
RECURSIVE RStrip(_)
RStrip(s) ==
    IF s # <<>> /\ IsSpace(s[Len(s)]) THEN RStrip(SubSeq(s, 1, Len(s) - 1)) ELSE s
\* str.strip()
strip(s) == RStrip(LStrip(s))

\* str.split(sep): the parts between the separators, empty ones included.
RECURSIVE SplitOn(_, _, _, _)
SplitOn(s, i, cur, sep) ==
    IF i > Len(s) THEN <<cur>>
    ELSE IF s[i] = sep THEN <<cur>> \o SplitOn(s, i + 1, <<>>, sep)
    ELSE SplitOn(s, i + 1, Append(cur, s[i]), sep)

\* de-duplicate while preserving order
RECURSIVE Dedupe(_, _)
Dedupe(parts, seen) ==
    IF parts = <<>> THEN <<>>
    ELSE IF parts[1] \in seen THEN Dedupe(Tail(parts), seen)
    ELSE <<parts[1]>> \o Dedupe(Tail(parts), seen \cup {parts[1]})

norm_agents_arg(raw) ==
    LET r == strip(raw)
        split == SplitOn(r, 1, <<>>, ",")
        parts == SelectSeq([i \in DOMAIN split |-> strip(split[i])],
                           LAMBDA q : q # <<>>)
    IN  IF r = <<>> THEN <<>>
        ELSE IF lower(r) = ALL THEN <<ALL>>
        ELSE Dedupe(parts, {})

\* load_manifest: [ok, error, data]
load_manifest(file) ==
    IF ~file.exists THEN [ok |-> FALSE, error |-> "manifest not found", data |-> <<>>]
    ELSE IF ~file.parser
    THEN [ok |-> FALSE, error |-> "PyYAML not installed", data |-> <<>>]
    ELSE IF file.doc.type # "mapping"
    THEN [ok |-> FALSE, error |-> "manifest.yaml must be a mapping", data |-> <<>>]
    ELSE [ok |-> TRUE, error |-> "", data |-> file.doc.val]

Today == <<"2", "0", "2", "6">>

\* for kv in args.var: the first token without "=" raises; the others set
\* variables[k.strip()] = v.strip(), split at the first "=".
RECURSIVE parse_vars(_, _)
parse_vars(tokens, mapping) ==
    IF tokens = <<>> THEN [ok |-> TRUE, variables |-> mapping]
    ELSE LET kv == tokens[1]
             eqs == { i \in DOMAIN kv : kv[i] = "=" }
             at == CHOOSE i \in eqs : \A j \in eqs : i <= j
         IN  IF eqs = {} THEN [ok |-> FALSE, variables |-> mapping]
             ELSE parse_vars(Tail(tokens),
                             (strip(SubSeq(kv, 1, at - 1))
                                :> strip(SubSeq(kv, at + 1, Len(kv)))) @@ mapping)

\* A mutant: the --var tokens are read after the plan was applied.
main_next_VarsAfterApply(at) ==
    CASE at = "load" -> "norm"
      [] at = "norm" -> "build"
      [] at = "build" -> "apply"
      [] at = "apply" -> "vars"
      [] at = "vars" -> "chmod"
      [] at = "chmod" -> "done"

\* The statements of main() in order.
main_next(at) ==
    CASE at = "load" -> "norm"
      [] at = "norm" -> "build"
      [] at = "build" -> "vars"
      [] at = "vars" -> "apply"
      [] at = "apply" -> "chmod"
      [] at = "chmod" -> "done"

\* Bounded command lines and manifests.
RelEntry(src, dst) == [type |-> "mapping", src |-> src, dst |-> dst]
MainCommonLists ==
    { <<RelEntry(<<"A.MD">>, <<".gitignore">>)>>,
      <<RelEntry(<<"A.MD">>, <<".gitignore">>),
        [type |-> "mapping", src |-> <<"snip">>, dst |-> <<".gitignore">>,
         mode |-> "merge_gitignore"]>> }
MainAgentEntries ==
    (<<"a">> :> <<RelEntry(<<"scripts">>, <<"scripts">>)>>)
    @@ (<<"B">> :> <<[type |-> "mapping", src |-> <<"none">>,
                      dst |-> <<".gitignore">>, optional |-> TRUE],
                     [type |-> "mapping", src |-> <<"snip">>,
                      dst |-> <<".gitignore">>, mode |-> "merge_gitignore"]>>)
    @@ (<<"a", "b">> :> <<RelEntry(<<"none">>, <<"scripts", "env.md">>)>>)
MainDeclared == { << <<"a">>, <<"B">> >>, << <<"a", "b">>, <<"a">> >> }

ManifestFiles ==
    { [exists |-> FALSE, parser |-> TRUE, doc |-> YScalar],
      [exists |-> TRUE, parser |-> FALSE, doc |-> YScalar],
      [exists |-> TRUE, parser |-> TRUE, doc |-> YScalar] }
    \cup { [exists |-> TRUE, parser |-> TRUE,
            doc |-> [type |-> "mapping",
                     val |-> MakeManifest(c, d, f, MainAgentEntries)]] :
             c \in MainCommonLists, d \in MainDeclared, f \in Defects }

AgentsArgs ==
    { <<>>, <<SP, "A", "L", "L">>, <<"a">>, <<"B", ",", SP, "a", ",", "B", ",">>,
      <<"a", ",", "z">>, <<"a", "b", ",", "a">> }

VarArgs ==
    { <<>>, << <<"X", "=", "a">> >>, << <<SP, "X", SP, "=", SP, "=", "b">>, <<"X">> >> }

MainTrees ==
    { t \in StartTrees :
        t[<<"dest">>].kind = "dir" => t[<<"dest", ".gitignore">>] = OldFile }

(***************************************************************************)
(* Specification Spec: one run of main().                                  *)
(***************************************************************************)
Init ==
    /\ pc = "load"
    /\ manifest_file \in ManifestFiles
    /\ agents_arg \in AgentsArgs
    /\ var_args \in VarArgs
    /\ force \in BOOLEAN
    /\ fs \in MainTrees
    /\ manifest = NoManifest
    /\ agents_selected = <<>>
    /\ plan = NoPlan
    /\ items = <<>>
    /\ render_exts = <<>>
    /\ variables = <<>>
    /\ idx = 1
    /\ error = ""
    /\ run = 1
    /\ fs_before = fs
    /\ trace = <<>>
    /\ fs_start = fs
    /\ snippet = <<>>
    /\ gitignore = Absent
    /\ before = Absent
    /\ merges = 0
    /\ content = <<>>
    /\ rendered = <<>>

\* manifest = load_manifest(manifest_path)
LoadManifest ==
    /\ pc = "load"
    /\ LET r == load_manifest(manifest_file)
       IN  IF r.ok
           THEN manifest' = r.data /\ pc' = main_next("load") /\ error' = error
           ELSE manifest' = manifest /\ pc' = "error" /\ error' = r.error
    /\ UNCHANGED <<agents_selected, plan, variables, force>>
    /\ UNCHANGED <<items, idx, fs, run, fs_before, trace, fs_start, render_exts>>
    /\ UNCHANGED <<mergeVars, renderVars, inputVars>>

\* agents_selected = norm_agents_arg(args.agents)
NormAgents ==
    /\ pc = "norm"
    /\ agents_selected' = norm_agents_arg(agents_arg)
    /\ pc' = main_next("norm")
    /\ UNCHANGED <<manifest, plan, variables, force>>
    /\ UNCHANGED <<mergeVars, renderVars, inputVars, applyVars>>

\* items, available_agents = build_copy_plan(...)
BuildPlan ==
    /\ pc = "build"
    /\ plan' = build_copy_plan(KitRoot, DestRoot, manifest, agents_selected)
    /\ IF plan'.ok
       THEN items' = plan'.items /\ pc' = main_next("build") /\ error' = error
       ELSE items' = items /\ pc' = "error" /\ error' = plan'.error
    /\ UNCHANGED <<manifest, agents_selected, variables, force>>
    /\ UNCHANGED <<idx, fs, run, fs_before, trace, fs_start, render_exts>>
    /\ UNCHANGED <<mergeVars, renderVars, inputVars>>

\* The variable mapping (TODAY, PROJECT_NAME, the --var tokens) and render_exts.
ReadVars ==
    /\ pc = "vars"
    /\ LET r == parse_vars(var_args,
                           (<<"T", "O", "D", "A", "Y">> :> Today)
                           @@ (<<"P", "R", "O", "J", "E", "C", "T", "_", "N", "A", "M", "E">>
                                 :> Spell[Last(DestRoot)]))
           exts == Get(manifest, "render_extensions", YList(<<>>))
       IN  IF ~r.ok
           THEN /\ pc' = "error" /\ error' = "--var must be KEY=VALUE"
                /\ UNCHANGED <<variables, render_exts>>
           ELSE IF exts.type # "list"
           THEN /\ pc' = "error" /\ error' = "render_extensions must be list"
                /\ UNCHANGED <<variables, render_exts>>
           ELSE /\ pc' = main_next("vars") /\ error' = error
                /\ variables' = r.variables
                /\ render_exts' = exts.elems
    /\ UNCHANGED <<manifest, agents_selected, plan, force>>
    /\ UNCHANGED <<items, idx, fs, run, fs_before, trace, fs_start>>
    /\ UNCHANGED <<mergeVars, renderVars, inputVars>>

\* apply_plan returned to main().
MainApplied ==
    /\ pc = "apply"
    /\ idx > Len(items)
    /\ pc' = main_next("apply")
    /\ UNCHANGED <<variables, force>>
    /\ UNCHANGED <<mergeVars, renderVars, planVars, applyVars, inputVars>>

\* for p in scripts_dir.glob("*.sh"): p.chmod(mode | S_IXUSR | S_IXGRP | S_IXOTH)
Chmod ==
    /\ pc = "chmod"
    /\ fs' = [p \in DOMAIN fs |->
                IF /\ Parent(p) = DestRoot \o <<"scripts">>
                   /\ fs[DestRoot \o <<"scripts">>].kind = "dir"
                   /\ fs[p].kind # "absent"
                   /\ suffix(Spell[Last(p)]) = <<".", "s", "h">>
                THEN [fs[p] EXCEPT !.x = TRUE]
                ELSE fs[p]]
    /\ pc' = main_next("chmod")
    /\ UNCHANGED <<variables, force>>
    /\ UNCHANGED <<items, idx, error, run, fs_before, trace, fs_start, render_exts>>
    /\ UNCHANGED <<mergeVars, renderVars, planVars, inputVars>>

Next ==
    \/ LoadManifest
    \/ NormAgents
    \/ BuildPlan
    \/ ReadVars
    \/ ApplyStep
    \/ MainApplied
    \/ Chmod

Spec == Init /\ [][Next]_vars

ConfigurationErrors ==
    { "manifest not found", "manifest.yaml must be a mapping",
      "render_extensions must be a list", "agents must be a mapping",
      "Unknown agents", "common.copy must be a list",
      "agents.<agent>.copy must be a list", "copy item must be mapping",
      "copy item requires src/dst strings", "--var must be KEY=VALUE" }

\* C10: a run that ends with a configuration or argument error has changed
\* nothing under the destination root and has run no item; whenever an item
\* has run, the manifest had loaded, the whole plan had been built and every
\* --var token had been read.
C10_ConfigErrorsBeforeAnyWrite ==
    /\ (pc = "error" /\ error \in ConfigurationErrors) =>
           (fs = fs_start /\ trace = <<>>)
    /\ (trace # <<>> \/ fs # fs_start) =>
           /\ manifest_file.exists /\ manifest_file.doc.type = "mapping"
           /\ plan.ok /\ items = plan.items
           /\ \A i \in DOMAIN var_args : "=" \in Range(var_args[i])
           /\ error \notin ConfigurationErrors

\* The manifest is sound and its plan has items to write, the second --var
\* token has no "=": the run ends with that error and an untouched tree.
C10_Witness ==
    /\ pc = "error" /\ error = "--var must be KEY=VALUE"
    /\ plan.ok /\ Len(plan.items) >= 2
    /\ SrcNode(plan.items[1].src).kind = "file"
    /\ fs = fs_start

====
